---- MODULE Spec2Model ----
(***************************************************************************)
(* Model of src/app.py: a Streamlit script (risk calculator and manager   *)
(* of trade records kept in the Google Sheets "Operaciones" and            *)
(* "Historial").                                                           *)
(*                                                                         *)
(* Streamlit executes the whole script once per user interaction.  One     *)
(* action of the model is one script run, started by the widget the user   *)
(* acted on (st.button / st.form_submit_button return True only in the run *)
(* their click started).  st.session_state is kept per browser session.    *)
(*                                                                         *)
(* Numbers.  Prices and lots are integers.  Monetary results are kept the  *)
(* way the sheet keeps them, rounded to two decimals, as an integer number *)
(* of hundredths.  An empty cell, "" and Python's None are one value, None.*)
(* Free text is a sequence of one-character strings.                       *)
(***************************************************************************)
EXTENDS Integers, Sequences, FiniteSets, TLC

\* ------------------------------------------------------------------------
\* Bounds of the model
\* ------------------------------------------------------------------------
MaxLot == 2
MaxPrice == 3
MaxOps == 2
MaxWrites == 2
MaxTextLen == 4

\* ------------------------------------------------------------------------
\* Values
\* ------------------------------------------------------------------------
\* None of Python, "" of a form field and an empty cell of a sheet.
None == -9999

Abs(x) == IF x < 0 THEN -x ELSE x

\* Quotient n/d (d > 0) rounded to the nearest integer, ties to the even one:
\* round(x, 2) and format(x, ".2f") on a value given in hundredths.
RoundHalfEven(n, d) ==
    LET q == n \div d
        r == n % d
    IN  IF 2 * r < d THEN q
        ELSE IF 2 * r > d THEN q + 1
        ELSE IF q % 2 = 0 THEN q ELSE q + 1

\* round(x, 2) of the rational n/d, as a number of hundredths.
Round2(n, d) ==
    IF d > 0 THEN RoundHalfEven(100 * n, d) ELSE RoundHalfEven(-(100 * n), -d)

\* ------------------------------------------------------------------------
\* Config sheet (rows Symbol | LotSize | MarginPct)
\* ------------------------------------------------------------------------
Symbols == {"EURUSD", "XAUUSD"}
Sides == {"Compra", "Venta"}

\* LOT_SIZES = dict(zip(df_cfg["Symbol"], df_cfg["LotSize"]))
LOT_SIZES == [s \in Symbols |-> IF s = "EURUSD" THEN 2 ELSE 1]

\* The MarginPct column, as the number before the % sign.
CFG_MARGIN_PCT == [s \in Symbols |-> IF s = "EURUSD" THEN 50 ELSE 0]

\* parse_margin_pct(v) is v / 100; the model keeps the margin in hundredths,
\* so the fraction times 100 is the number of the column itself.
parse_margin_pct(v) == IF v = None THEN 0 ELSE v

MARGIN_PCTS == [s \in Symbols |-> parse_margin_pct(CFG_MARGIN_PCT[s])]

\* float(LOT_SIZES.get(symbol, 1) or 1)
LotSizeOf(symbol) ==
    IF symbol \in Symbols /\ LOT_SIZES[symbol] # 0 THEN LOT_SIZES[symbol] ELSE 1

\* float(MARGIN_PCTS.get(symbol, 0.0) or 0.0), times 100
MarginPctOf(symbol) == IF symbol \in Symbols THEN MARGIN_PCTS[symbol] ELSE 0

\* ------------------------------------------------------------------------
\* Calculator (lines 161-209): margen, riesgo, beneficio, rb, incoherente
\* ------------------------------------------------------------------------
\* margen in hundredths; None when lote or precio is missing.
Margen(symbol, lote, precio) ==
    IF lote # None /\ precio # None
    THEN MarginPctOf(symbol) * lote * precio * LotSizeOf(symbol)
    ELSE None

\* Riesgo with a missing stop defaulted to 0 instead of left unavailable.
RiesgoDefaultsStop(side, symbol, lote, precio, sl) ==
    IF lote # None /\ precio # None
    THEN LET s == IF sl = None THEN 0 ELSE sl
         IN  IF side = "Compra"
             THEN lote * (s - precio) * LotSizeOf(symbol)
             ELSE lote * (precio - s) * LotSizeOf(symbol)
    ELSE None

\* Riesgo with the sign of a distance: entry minus stop for a purchase.
RiesgoAsDistance(side, symbol, lote, precio, sl) ==
    IF lote # None /\ precio # None /\ sl # None
    THEN IF side = "Compra"
         THEN lote * (precio - sl) * LotSizeOf(symbol)
         ELSE lote * (sl - precio) * LotSizeOf(symbol)
    ELSE None

Riesgo(side, symbol, lote, precio, sl) ==
    IF lote # None /\ precio # None /\ sl # None
    THEN IF side = "Compra"
         THEN lote * (sl - precio) * LotSizeOf(symbol)
         ELSE lote * (precio - sl) * LotSizeOf(symbol)
    ELSE None

Beneficio(side, symbol, lote, precio, tp) ==
    IF lote # None /\ precio # None /\ tp # None
    THEN IF side = "Compra"
         THEN lote * (tp - precio) * LotSizeOf(symbol)
         ELSE lote * (precio - tp) * LotSizeOf(symbol)
    ELSE None

\* Incoherente that accepts a risk of zero.
IncoherenteAcceptsZero(riesgo, beneficio) ==
    IF riesgo # None /\ beneficio # None
    THEN ~(riesgo <= 0 /\ beneficio > 0)
    ELSE FALSE

Incoherente(riesgo, beneficio) ==
    IF riesgo # None /\ beneficio # None
    THEN ~(riesgo < 0 /\ beneficio > 0)
    ELSE FALSE

\* RB computed only for a strictly positive riesgo, without absolute values.
RBPositiveOnly(riesgo, beneficio) ==
    IF riesgo # None /\ beneficio # None
    THEN IF riesgo > 0 THEN <<beneficio, riesgo>> ELSE << >>
    ELSE << >>

\* rb as the fraction <<numer, denom>>, or << >> when it is None.
RB(riesgo, beneficio) ==
    IF riesgo # None /\ beneficio # None
    THEN IF Abs(riesgo) # 0 THEN <<Abs(beneficio), Abs(riesgo)>> ELSE << >>
    ELSE << >>

\* abs(x) of a fraction <<n, d>>.
RatAbs(x) == <<Abs(x[1]), Abs(x[2])>>

\* Edit panel (lines 602-603): rb = abs(beneficio / abs(riesgo)).
EditRB(riesgo, beneficio) ==
    IF riesgo # None /\ beneficio # None /\ riesgo # 0
    THEN RatAbs(<<beneficio, Abs(riesgo)>>)
    ELSE << >>

Calc(f) ==
    LET riesgo == Riesgo(f.side, f.symbol, f.lote, f.precio, f.sl)
        beneficio == Beneficio(f.side, f.symbol, f.lote, f.precio, f.tp)
    IN  [margen |-> Margen(f.symbol, f.lote, f.precio),
         riesgo |-> riesgo,
         beneficio |-> beneficio,
         rb |-> RB(riesgo, beneficio),
         incoherente |-> Incoherente(riesgo, beneficio)]

\* Values the user can type in the four numeric fields of the calculator.
LoteInputs == {None} \cup (0 .. MaxLot)
PriceInputs == {None} \cup (1 .. MaxPrice)

FormValues ==
    [symbol : Symbols, side : Sides, lote : LoteInputs, precio : PriceInputs,
     sl : PriceInputs, tp : PriceInputs]

\* The form of a new session: first symbol and side, empty text fields.
BlankForm ==
    [symbol |-> "EURUSD", side |-> "Compra", lote |-> None, precio |-> None,
     sl |-> None, tp |-> None]

\* ------------------------------------------------------------------------
\* Text
\* ------------------------------------------------------------------------
IsSpace(c) == c = " "

RECURSIVE LStrip(_)
LStrip(t) == IF t # << >> /\ IsSpace(Head(t)) THEN LStrip(Tail(t)) ELSE t

RECURSIVE RStrip(_)
RStrip(t) ==
    IF t # << >> /\ IsSpace(t[Len(t)]) THEN RStrip(SubSeq(t, 1, Len(t) - 1)) ELSE t

\* Mutant of Strip: the text is taken as typed.
StripNothing(t) == t

\* str.strip()
Strip(t) == RStrip(LStrip(t))

\* ------------------------------------------------------------------------
\* parse_decimal (lines 23-34)
\* ------------------------------------------------------------------------
\* Characters typed in a numeric field, and the texts made of them.
ParseChars == {" ", "0", "2", ",", ".", "a", "n"}
Digits == {"0", "2"}
Texts == UNION {[1 .. n -> ParseChars] : n \in 0 .. MaxTextLen}

DigitVal(c) == IF c = "2" THEN 2 ELSE 0

\* The results of parse_decimal: None, or a float: m / 10^k with no trailing
\* zero in the fraction, or nan.
FloatNone == [kind |-> "None", m |-> 0, k |-> 0]
FloatNaN == [kind |-> "nan", m |-> 0, k |-> 0]

RECURSIVE FloatOf(_, _)
FloatOf(m, k) ==
    IF k > 0 /\ m % 10 = 0 THEN FloatOf(m \div 10, k - 1)
    ELSE [kind |-> "float", m |-> m, k |-> k]

\* s.replace(a, b)
Replace(t, a, b) == [i \in 1 .. Len(t) |-> IF t[i] = a THEN b ELSE t[i]]

\* The digits of t read as one integer, the point skipped.
RECURSIVE Mantissa(_)
Mantissa(t) ==
    IF t = << >> THEN 0
    ELSE IF t[Len(t)] = "." THEN Mantissa(SubSeq(t, 1, Len(t) - 1))
    ELSE 10 * Mantissa(SubSeq(t, 1, Len(t) - 1)) + DigitVal(t[Len(t)])

\* The number of digits after the point.
Scale(t) ==
    IF \E i \in 1 .. Len(t) : t[i] = "."
    THEN Len(t) - (CHOOSE i \in 1 .. Len(t) : t[i] = ".")
    ELSE 0

\* float(s) inside try / except: digits with at most one point and at least
\* one digit are a number, "nan" is nan, and every other text of ParseChars
\* raises ValueError, which the except turns into None.
FloatOrNone(t) ==
    IF t = <<"n", "a", "n">> THEN FloatNaN
    ELSE IF /\ \A i \in 1 .. Len(t) : t[i] \in Digits \cup {"."}
            /\ Cardinality({i \in 1 .. Len(t) : t[i] = "."}) <= 1
            /\ \E i \in 1 .. Len(t) : t[i] \in Digits
    THEN FloatOf(Mantissa(t), Scale(t))
    ELSE FloatNone

\* parse_decimal(s) for a text s
parse_decimal(t) ==
    IF Strip(t) = << >> THEN FloatNone
    ELSE FloatOrNone(Replace(Strip(t), ",", "."))

\* ------------------------------------------------------------------------
\* Read Config (lines 116-125)
\* ------------------------------------------------------------------------
required_cfg_cols == {"Symbol", "LotSize", "MarginPct"}

\* Mutant of ConfigComplete: one required column is enough.
ConfigNotEmpty(cols) == required_cfg_cols \cap cols # {}

\* required_cfg_cols.issubset(set(df_cfg.columns))
ConfigComplete(cols) == required_cfg_cols \subseteq cols

\* str.lower() on the texts a state cell or a side cell can hold.
Lower(e) ==
    CASE e = "Pendiente" -> "pendiente"
      [] e = "Compra" -> "compra"
      [] e = "Venta" -> "venta"
      [] e = "Mercado" -> "mercado"
      [] e = "Stopeada" -> "stopeada"
      [] e = "Limitada" -> "limitada"
      [] OTHER -> e

\* ------------------------------------------------------------------------
\* Sheets.  A row is a dict header -> cell (row_dict); the columns are named
\* Simbolo ("Símbolo"), StopLoss ("Stop Loss"), TakeProfit ("Take Profit"),
\* RB ("R/B"), OrdenTipo ("Orden Tipo").
\* ------------------------------------------------------------------------
CommonCols ==
    {"UID", "Fecha", "Simbolo", "Tipo", "Lote", "Precio", "StopLoss",
     "TakeProfit", "Margen", "Riesgo", "Beneficio", "RB", "Comentario"}

\* The header row of Operaciones: the state column is "Orden Tipo" in one
\* deployment and "Estado" in another; the first row can also be empty.
HeadersOrdenTipo == CommonCols \cup {"OrdenTipo"}
HeadersEstado == CommonCols \cup {"Estado"}
NoHeaders == {}

StateCols == {"Estado", "Orden", "OrdenTipo"}
TextCols == {"Simbolo", "Tipo"} \cup StateCols

\* The empty cell of a column ("" read back from the sheet).
EmptyCell(h) ==
    IF h \in TextCols THEN "" ELSE IF h = "Comentario" THEN << >> ELSE None

\* dict.get(k, ""): the cell, or the empty cell when the key is missing.
Get(d, k) == IF k \in DOMAIN d THEN d[k] ELSE EmptyCell(k)

\* [datos.get(h, "") for h in headers]
RowFor(hs, datos) == [h \in hs |-> Get(datos, h)]

\* A row of the grid with nothing in it.
BlankRow(hs) == [h \in hs |-> EmptyCell(h)]

\* a or b on texts
OrText(a, b) == IF a # "" THEN a ELSE b

\* str(row_dict.get("Estado") or row_dict.get("Orden") or
\*     row_dict.get("Orden Tipo") or "").strip().lower()
EstadoOf(d) ==
    Lower(OrText(Get(d, "Estado"), OrText(Get(d, "Orden"), Get(d, "OrdenTipo"))))

\* ws.row_values(n) zipped with the headers; row 1 is the header row.
RowDict(table, rownum, hs) ==
    IF rownum - 1 \in 1 .. Len(table) THEN table[rownum - 1] ELSE BlankRow(hs)

\* ws.delete_rows(n): the rows below move up; a row below the data is empty.
DeleteRow(table, rownum) ==
    IF rownum - 1 \in 1 .. Len(table)
    THEN [i \in 1 .. Len(table) - 1 |->
            IF i < rownum - 1 THEN table[i] ELSE table[i + 1]]
    ELSE table

\* ws.update("A{n}:..{n}", [row]): overwrite row n of the grid; the rows
\* between the data and row n, if any, stay empty.
UpdateRow(table, rownum, row, hs) ==
    [i \in 1 .. (IF rownum - 1 > Len(table) THEN rownum - 1 ELSE Len(table)) |->
        IF i = rownum - 1 THEN row
        ELSE IF i <= Len(table) THEN table[i] ELSE BlankRow(hs)]

\* A table with the row on top of the rows it holds.
InsertRowOnTop(table, row) == <<row>> \o table

\* ws.append_row(row): the row goes below the last row of the table.
AppendRow(table, row) == Append(table, row)

\* ------------------------------------------------------------------------
\* State
\* ------------------------------------------------------------------------
\* The browser session the model follows run by run.  A second session on the
\* same sheets is followed through the cancels it completes
\* (OtherSessionCancels).
Sessions == {"s1"}

VARIABLES
    cfg_columns, \* df_cfg.columns: the columns of the sheet Config
    text,      \* a text typed in a numeric field
    parsed,    \* parse_decimal(text)
    form,      \* calculator inputs of the session the calculator claims follow
    metrics,   \* margen, riesgo, beneficio, rb, incoherente shown for form
    headers,   \* header row of Operaciones
    ops,       \* data rows of Operaciones (row i of ops is sheet row i + 1)
    hist,      \* data rows of Historial
    ss,        \* st.session_state and the forms shown, per session
    clock,     \* datetime.now(): it advances with every write to the sheets
    last       \* the last script run: button pressed, row selected, message

parseVars == <<text, parsed>>
lifeVars == <<cfg_columns, parseVars, headers, ops, hist, ss, clock, last>>
vars == <<cfg_columns, parseVars, form, metrics, headers, ops, hist, ss, clock, last>>

\* The script goes past st.stop() of line 121.
ConfigOk == ConfigComplete(cfg_columns)

\* No row loaded in session_state.
NoRow == << >>

NewSession ==
    [show_register_panel |-> FALSE,
     show_delete_panel |-> FALSE,
     delete_row |-> NoRow, delete_rownum |-> 0,
     edit_loaded |-> FALSE,
     edit_row |-> NoRow, edit_rownum |-> 0]

NoRun == [s |-> "none", w |-> "none", sel |-> 0, msg |-> "none", exc |-> "none"]

\* The clock when the sessions start: the sheet may hold rows of earlier
\* sessions, registered at times 1 .. MaxOps.
ClockStart == MaxOps + 1

InitLife(hs, sheet, sessions) ==
    /\ headers = hs
    /\ ops = sheet
    /\ hist = << >>
    /\ ss = [s \in sessions |-> NewSession]
    /\ clock = ClockStart
    /\ last = NoRun

InitForm ==
    /\ form = BlankForm /\ metrics = Calc(BlankForm)
    /\ text = << >> /\ parsed = parse_decimal(<< >>)

\* st.button(label) / st.form_submit_button(label) in a run started by w.
st_button(w, label) == w = label

\* The list section of a run over the sheet as the run reads it: with data
\* rows the else branch of line 389 assigns colm1, colm2, colm3 and
\* sel_rownum (lines 413-414); with none, st.info tells "No hay operaciones
\* registradas." and "with colm3" of line 484, outside that branch, reads a
\* name never assigned.  The exception the run ends with, "none" when the
\* script reaches its end.
ListSection(table) ==
    IF table = << >> THEN "NameError: name 'colm3' is not defined" ELSE "none"

\* The run ends (after st.rerun() where the handler asks for it, in the run
\* that st.rerun() starts): the handler's message and what the list section
\* does over the sheet the handler leaves.
EndRun(s, rec, w, sel, msg) ==
    /\ ss' = [ss EXCEPT ![s] = rec]
    /\ last' = [s |-> s, w |-> w, sel |-> sel, msg |-> msg,
                exc |-> ListSection(ops')]

\* The run is aborted by an exception raised outside every try block, before
\* the list section.
AbortRun(s, rec, w, sel, exc) ==
    /\ ss' = [ss EXCEPT ![s] = rec]
    /\ last' = [s |-> s, w |-> w, sel |-> sel, msg |-> "none", exc |-> exc]

\* The widgets a button's branch draws (the form of the automatic close, the
\* inputs of the manual close) are on the page of session s after the run
\* that drew them and until the next run of s.  The model follows them until
\* the next run of any session: a press after that starts the same run as
\* the press it follows here.
Shown(s, w) == last.s = s /\ last.w = w /\ last.msg = "none"

\* The list, its buttons and everything below them are shown iff the sheet
\* has data rows: without them the script stops at "with colm3" (line 484),
\* where colm3 was never assigned.  A button left on the page of a session
\* whose sheet lost its last row since starts a run that does nothing more
\* than InputChange.
Listed == ops # << >>

\* The rows the selectbox offers: sheet rows 2 .. len + 1.
RowNums == 2 .. Len(ops) + 1

\* ------------------------------------------------------------------------
\* Calculator inputs (lines 144-156)
\* ------------------------------------------------------------------------
\* The user changes a widget that is no button (symbol, side, a text field);
\* the script runs with no button pressed.  The values of these widgets are
\* inputs of the run that reads them.
InputChange(s) ==
    /\ ConfigOk
    /\ last # [NoRun EXCEPT !.exc = ListSection(ops)]
    /\ UNCHANGED <<cfg_columns, parseVars, form, metrics, headers, ops, hist, ss, clock>>
    /\ last' = [NoRun EXCEPT !.exc = ListSection(ops)]

\* ------------------------------------------------------------------------
\* Registrar Suceso (lines 231-297)
\* ------------------------------------------------------------------------
OrdenTipos == {"Pendiente", "Mercado"}

\* Calculator inputs at a registration: a coherent purchase, a sale with no
\* stop, and two forms that miss a mandatory field.
RegForms ==
    {[symbol |-> "EURUSD", side |-> "Compra", lote |-> 1, precio |-> 2,
      sl |-> 1, tp |-> 3],
     [symbol |-> "XAUUSD", side |-> "Venta", lote |-> 2, precio |-> 2,
      sl |-> None, tp |-> 1],
     [symbol |-> "EURUSD", side |-> "Compra", lote |-> None, precio |-> 2,
      sl |-> 1, tp |-> 3],
     [symbol |-> "XAUUSD", side |-> "Venta", lote |-> 1, precio |-> None,
      sl |-> 3, tp |-> 1]}
RegComentarios == {<< >>}

\* datos (lines 252-268); "R/B" and the money columns in hundredths.
Datos(uid, now, f, orden_tipo, comentario) ==
    LET m == Calc(f)
    IN  [UID |-> uid,
         Fecha |-> now,
         Simbolo |-> f.symbol,
         Tipo |-> f.side,
         Lote |-> f.lote,
         Precio |-> f.precio,
         StopLoss |-> f.sl,
         TakeProfit |-> f.tp,
         Margen |-> IF m.margen = None THEN 0 ELSE Round2(m.margen, 100),
         Riesgo |-> IF m.riesgo = None THEN None ELSE Round2(m.riesgo, 1),
         Beneficio |-> IF m.beneficio = None THEN None ELSE Round2(m.beneficio, 1),
         RB |-> IF m.rb = << >> THEN None ELSE Round2(m.rb[1], m.rb[2]),
         OrdenTipo |-> orden_tipo,
         Comentario |-> comentario]

\* Mutant of RegistroIncompleto: only a form that misses both is refused.
RegistroSinNada(f) == f.lote = None /\ f.precio = None

\* "if lote is None or precio is None" (line 241)
RegistroIncompleto(f) == f.lote = None \/ f.precio = None

\* Button "Registrar Suceso": opens the panel.
RegistrarSuceso(s) ==
    /\ ConfigOk
    /\ UNCHANGED <<cfg_columns, parseVars, form, metrics, headers, ops, hist, clock>>
    /\ EndRun(s, [ss[s] EXCEPT !.show_register_panel = TRUE],
              "Registrar Suceso", 0, "none")

\* Form button "Aceptar y Guardar".
AceptarYGuardar(s) ==
    /\ ConfigOk
    /\ ss[s].show_register_panel
    /\ clock < ClockStart + MaxWrites /\ Len(ops) < MaxOps
    /\ \E f \in RegForms,
          orden_tipo \in OrdenTipos, comentario \in RegComentarios,
          store_ok \in BOOLEAN :
        LET rec == ss[s]
            w == "Aceptar y Guardar"
        IN  /\ UNCHANGED <<cfg_columns, parseVars, form, metrics, headers, hist>>
            /\ IF RegistroIncompleto(f)
               THEN /\ UNCHANGED <<ops, clock>>
                    /\ EndRun(s, rec, w, 0,
                              "Necesitas al menos Lote y Precio para registrar.")
               ELSE IF headers = NoHeaders
               THEN \* fila reads datos["Estado"]: KeyError, not caught
                    /\ UNCHANGED <<ops, clock>>
                    /\ AbortRun(s, rec, w, 0, "KeyError: 'Estado'")
               ELSE IF ~store_ok
               THEN \* ws_ops.append_row raises
                    /\ UNCHANGED <<ops, clock>>
                    /\ EndRun(s, rec, w, 0, "Error al guardar en Google Sheets")
               ELSE /\ ops' = AppendRow(ops, RowFor(headers,
                                  Datos(clock, clock, f, orden_tipo, comentario)))
                    /\ clock' = clock + 1
                    /\ EndRun(s, [rec EXCEPT !.show_register_panel = FALSE],
                              w, 0, "Suceso guardado en Operaciones.")

\* ------------------------------------------------------------------------
\* Modificar operación seleccionada (lines 417-426)
\* ------------------------------------------------------------------------
Modificar(s) ==
    /\ ConfigOk
    /\ Listed
    /\ UNCHANGED <<cfg_columns, parseVars, form, metrics, headers, ops, hist, clock>>
    /\ \E sel_rownum \in RowNums :
          EndRun(s, [ss[s] EXCEPT !.edit_loaded = TRUE,
                                  !.edit_rownum = sel_rownum,
                                  !.edit_row = RowDict(ops, sel_rownum, headers)],
                 "Modificar operacion seleccionada", sel_rownum, "none")

\* ------------------------------------------------------------------------
\* Eliminar operación pendiente (lines 428-482)
\* ------------------------------------------------------------------------
\* Texts typed as justification.
JustInputs == {<< >>, <<" ">>, <<"m">>}

\* Mutant of Eliminar: the panel opens whatever the state of the row.
EliminarSinEstado(s) ==
    /\ ConfigOk
    /\ Listed
    /\ UNCHANGED <<cfg_columns, parseVars, form, metrics, headers, ops, hist, clock>>
    /\ \E sel_rownum \in RowNums :
          EndRun(s, [ss[s] EXCEPT !.show_delete_panel = TRUE,
                                  !.delete_row = RowDict(ops, sel_rownum, headers),
                                  !.delete_rownum = sel_rownum],
                 "Eliminar operacion pendiente", sel_rownum, "none")

\* Button "Eliminar operación pendiente" (lines 428-448).
Eliminar(s) ==
    /\ ConfigOk
    /\ Listed
    /\ UNCHANGED <<cfg_columns, parseVars, form, metrics, headers, ops, hist, clock>>
    /\ \E sel_rownum \in RowNums :
          LET row_dict == RowDict(ops, sel_rownum, headers)
              rec == ss[s]
              w == "Eliminar operacion pendiente"
          IN  IF EstadoOf(row_dict) # "pendiente"
              THEN EndRun(s, rec, w, sel_rownum,
                          "Solo se pueden eliminar operaciones en estado 'Pendiente'.")
              ELSE EndRun(s, [rec EXCEPT !.show_delete_panel = TRUE,
                                         !.delete_row = row_dict,
                                         !.delete_rownum = sel_rownum],
                          w, sel_rownum, "none")

\* hist_row of delete_form (lines 465-470)
DeleteHistRow(row_dict, now, justification) ==
    [UID |-> Get(row_dict, "UID"),
     FechaApertura |-> Get(row_dict, "Fecha"),
     FechaCierre |-> now,
     Simbolo |-> Get(row_dict, "Simbolo"),
     Tipo |-> Get(row_dict, "Tipo"),
     Lote |-> Get(row_dict, "Lote"),
     Precio |-> Get(row_dict, "Precio"),
     StopLoss |-> Get(row_dict, "StopLoss"),
     TakeProfit |-> Get(row_dict, "TakeProfit"),
     PrecioCierre |-> None,
     Margen |-> Get(row_dict, "Margen"),
     Riesgo |-> Get(row_dict, "Riesgo"),
     Beneficio |-> Get(row_dict, "Beneficio"),
     RB |-> Get(row_dict, "RB"),
     EstadoCierre |-> "Eliminada",
     Justificacion |-> justification]

\* The store calls of a move to Historial: both succeed, the append raises,
\* or the append succeeds and the delete raises.
StoreOutcomes == {"ok", "append_fails", "delete_fails"}

\* Form button "Confirmar eliminación" (lines 450-482).  On success the panel
\* closes; _delete_row and _delete_rownum are then read no more before
\* "Eliminar operación pendiente" sets them again, and the model drops them.
ConfirmarEliminacion(s) ==
    /\ ConfigOk
    /\ Listed /\ ss[s].show_delete_panel
    /\ clock < ClockStart + MaxWrites
    /\ UNCHANGED <<cfg_columns, parseVars, form, metrics, headers>>
    /\ \E justification \in JustInputs, store \in StoreOutcomes :
        LET rec == ss[s]
            w == "Confirmar eliminacion"
        IN  IF Strip(justification) = << >>
            THEN /\ UNCHANGED <<ops, hist, clock>>
                 /\ EndRun(s, rec, w, 0, "La justificacion es obligatoria.")
            ELSE IF store = "append_fails"
            THEN /\ UNCHANGED <<ops, hist, clock>>
                 /\ EndRun(s, rec, w, 0, "Error al intentar eliminar")
            ELSE /\ hist' = AppendRow(hist,
                           DeleteHistRow(ss[s].delete_row, clock, justification))
                 /\ clock' = clock + 1
                 /\ IF store = "delete_fails"
                    THEN /\ UNCHANGED ops
                         /\ EndRun(s, rec, w, 0, "Error al intentar eliminar")
                    ELSE /\ ops' = DeleteRow(ops, ss[s].delete_rownum)
                         /\ EndRun(s, [rec EXCEPT !.show_delete_panel = FALSE,
                                                  !.delete_row = NoRow,
                                                  !.delete_rownum = 0],
                                   w, 0,
                                   "Operacion pendiente eliminada y registrada en Historial.")

\* A second session, on a page that lists the sheet as it is now, presses
\* "Eliminar operación pendiente" on a pending row and confirms with a
\* justification: its two runs, with no run of another session in between.
OtherSessionCancels ==
    /\ ConfigOk
    /\ Listed
    /\ clock < ClockStart + MaxWrites
    /\ UNCHANGED <<cfg_columns, parseVars, form, metrics, headers, ss>>
    /\ \E sel_rownum \in RowNums :
          LET row_dict == RowDict(ops, sel_rownum, headers)
          IN  /\ EstadoOf(row_dict) = "pendiente"
              /\ hist' = AppendRow(hist, DeleteHistRow(row_dict, clock, <<"m">>))
              /\ ops' = DeleteRow(ops, sel_rownum)
              /\ clock' = clock + 1
              /\ last' = [s |-> "other", w |-> "Confirmar eliminacion",
                          sel |-> sel_rownum,
                          msg |-> "Operacion pendiente eliminada y registrada en Historial.",
                          exc |-> ListSection(ops')]

\* ------------------------------------------------------------------------
\* Closes (lines 484-546 and 707-755)
\* ------------------------------------------------------------------------
\* Python truth of a parsed number: neither None nor 0.
Truthy(x) == x # None /\ x # 0

\* riesgo_r / beneficio_r: lote_r * diff / lot_size_r, rounded for the sheet.
CloseAmount(lote_r, precio_ent, level, sgn, lot_size_r) ==
    IF Truthy(lote_r) /\ Truthy(precio_ent) /\ level # None
    THEN Round2(lote_r * sgn * (level - precio_ent), lot_size_r)
    ELSE None

\* hist_row of the two closes; compra is the side test of the handler.
CloseHistRow(row_dict, now, compra, precio_cierre, cause, justif) ==
    LET lote_r == Get(row_dict, "Lote")
        precio_ent == Get(row_dict, "Precio")
        sl_r == Get(row_dict, "StopLoss")
        tp_r == Get(row_dict, "TakeProfit")
        symbol_r == Get(row_dict, "Simbolo")
        lot_size_r == LotSizeOf(symbol_r)
        sgn == IF compra THEN 1 ELSE -1
        riesgo_n == IF Truthy(lote_r) /\ Truthy(precio_ent) /\ sl_r # None
                    THEN lote_r * sgn * (sl_r - precio_ent) ELSE 0
        beneficio_n == IF Truthy(lote_r) /\ Truthy(precio_ent) /\ tp_r # None
                       THEN lote_r * sgn * (tp_r - precio_ent) ELSE 0
    IN  [UID |-> Get(row_dict, "UID"),
         FechaApertura |-> Get(row_dict, "Fecha"),
         FechaCierre |-> now,
         Simbolo |-> symbol_r,
         Tipo |-> Get(row_dict, "Tipo"),
         Lote |-> lote_r,
         Precio |-> precio_ent,
         StopLoss |-> sl_r,
         TakeProfit |-> tp_r,
         PrecioCierre |-> precio_cierre,
         Margen |-> IF Truthy(lote_r) /\ Truthy(precio_ent)
                    THEN Round2(MarginPctOf(symbol_r) * lote_r * precio_ent
                                  * lot_size_r, 100)
                    ELSE 0,
         Riesgo |-> CloseAmount(lote_r, precio_ent, sl_r, sgn, lot_size_r),
         Beneficio |-> CloseAmount(lote_r, precio_ent, tp_r, sgn, lot_size_r),
         \* safe_div(beneficio_r, riesgo_r) if both are non-zero
         RB |-> IF riesgo_n # 0 /\ beneficio_n # 0
                THEN Round2(beneficio_n, riesgo_n) ELSE None,
         EstadoCierre |-> cause,
         Justificacion |-> justif]

\* The run of the script through "with colm3" (lines 484-546): the button
\* "Cierre automático (TP/SL)" and, inside its branch, the form
\* form_cierre_auto with the button "Confirmar cierre automático".
CierreAutoRun(s, w) ==
    /\ ConfigOk
    /\ UNCHANGED <<cfg_columns, parseVars, form, metrics, headers>>
    /\ LET rec == ss[s]
       IN  IF ~st_button(w, "Cierre automatico (TP/SL)")
           THEN \* the branch, and the form in it, is skipped
                UNCHANGED <<ops, hist, clock>> /\ EndRun(s, rec, w, 0, "none")
           ELSE \E sel_rownum \in RowNums, motivo \in {"TP", "SL"},
                   store \in StoreOutcomes :
                  LET row_dict == RowDict(ops, sel_rownum, headers)
                      confirmar == st_button(w, "Confirmar cierre automatico")
                      tipo_r == Get(row_dict, "Tipo")
                  IN  IF EstadoOf(row_dict) = "pendiente"
                      THEN /\ UNCHANGED <<ops, hist, clock>>
                           /\ EndRun(s, rec, w, sel_rownum,
                                "No se puede efectuar cierre automatico sobre operacion pendiente.")
                      ELSE IF ~confirmar
                      THEN /\ UNCHANGED <<ops, hist, clock>>
                           /\ EndRun(s, rec, w, sel_rownum, "none")
                      ELSE IF tipo_r = "" \/ store = "append_fails"
                      THEN \* None.lower() or append_row raises
                           /\ UNCHANGED <<ops, hist, clock>>
                           /\ EndRun(s, rec, w, sel_rownum, "Error cierre automatico")
                      ELSE /\ hist' = AppendRow(hist,
                                CloseHistRow(row_dict, clock,
                                    Lower(tipo_r) = "compra",
                                    IF motivo = "TP"
                                    THEN Get(row_dict, "TakeProfit")
                                    ELSE Get(row_dict, "StopLoss"),
                                    IF motivo = "TP"
                                    THEN "Cierre automatico TP"
                                    ELSE "Cierre automatico SL",
                                    << >>))
                           /\ clock' = clock + 1
                           /\ IF store = "delete_fails"
                              THEN /\ UNCHANGED ops
                                   /\ EndRun(s, rec, w, sel_rownum,
                                             "Error cierre automatico")
                              ELSE /\ ops' = DeleteRow(ops, sel_rownum)
                                   /\ EndRun(s, rec, w, sel_rownum,
                                        "Cierre automatico registrado en Historial y eliminado de Operaciones.")

CierreAutomatico(s) ==
    /\ Listed
    /\ CierreAutoRun(s, "Cierre automatico (TP/SL)")

ConfirmarCierreAutomatico(s) ==
    /\ Listed /\ Shown(s, "Cierre automatico (TP/SL)")
    /\ clock < ClockStart + MaxWrites
    /\ CierreAutoRun(s, "Confirmar cierre automatico")

\* Close prices typed for a manual close.
ClosePriceInputs == {None, 2}

\* The run of the script through lines 707-755: the button "Cierre manual de
\* selección" and, inside its branch, the button "Confirmar cierre manual".
CierreManualRun(s, w) ==
    /\ ConfigOk
    /\ UNCHANGED <<cfg_columns, parseVars, form, metrics, headers>>
    /\ LET rec == ss[s]
       IN  IF ~st_button(w, "Cierre manual de seleccion")
           THEN UNCHANGED <<ops, hist, clock>> /\ EndRun(s, rec, w, 0, "none")
           ELSE \E sel_rownum \in RowNums, close_price \in ClosePriceInputs,
                   justif_close \in JustInputs, store \in StoreOutcomes :
                  LET row_dict == RowDict(ops, sel_rownum, headers)
                      confirmar == st_button(w, "Confirmar cierre manual")
                  IN  IF EstadoOf(row_dict) = "pendiente"
                      THEN /\ UNCHANGED <<ops, hist, clock>>
                           /\ EndRun(s, rec, w, sel_rownum,
                                "No se puede cerrar manualmente una operacion pendiente")
                      ELSE IF ~confirmar
                      THEN /\ UNCHANGED <<ops, hist, clock>>
                           /\ EndRun(s, rec, w, sel_rownum, "none")
                      ELSE IF close_price = None
                      THEN /\ UNCHANGED <<ops, hist, clock>>
                           /\ EndRun(s, rec, w, sel_rownum, "Precio de cierre invalido.")
                      ELSE IF store = "append_fails"
                      THEN /\ UNCHANGED <<ops, hist, clock>>
                           /\ EndRun(s, rec, w, sel_rownum, "Error cierre manual")
                      ELSE /\ hist' = AppendRow(hist,
                                CloseHistRow(row_dict, clock,
                                    Get(row_dict, "Tipo") = "Compra",
                                    close_price, "Cierre manual", justif_close))
                           /\ clock' = clock + 1
                           /\ IF store = "delete_fails"
                              THEN /\ UNCHANGED ops
                                   /\ EndRun(s, rec, w, sel_rownum, "Error cierre manual")
                              ELSE /\ ops' = DeleteRow(ops, sel_rownum)
                                   /\ EndRun(s, rec, w, sel_rownum,
                                        "Cierre manual registrado y operacion eliminada de Operaciones.")

CierreManual(s) ==
    /\ Listed
    /\ CierreManualRun(s, "Cierre manual de seleccion")

ConfirmarCierreManual(s) ==
    /\ Listed /\ Shown(s, "Cierre manual de seleccion")
    /\ clock < ClockStart + MaxWrites
    /\ CierreManualRun(s, "Confirmar cierre manual")

\* Button "Exportar Operaciones a CSV" (lines 757-764): reads only.
Exportar(s) ==
    /\ ConfigOk
    /\ Listed
    /\ UNCHANGED <<cfg_columns, parseVars, form, metrics, headers, ops, hist, clock>>
    /\ EndRun(s, ss[s], "Exportar Operaciones a CSV", 0, "none")

\* ------------------------------------------------------------------------
\* Edit panel and "Guardar modificación" (lines 552-697)
\* ------------------------------------------------------------------------
\* The symbol selected in the calculator and the values left or typed in the
\* Stop Loss and Take Profit fields of the edit panel: a new stop with the
\* target removed, and the stop removed.
EditInputs ==
    {[symbol |-> "XAUUSD", sl |-> 1, tp |-> None],
     [symbol |-> "EURUSD", sl |-> None, tp |-> 3]}
EditComentarios == {<< >>}
ActivarTipos == {"Stopeada", "Limitada"}

\* parse_decimal(str(edit.get(k, "")) or "0"): an empty cell reads as 0.
EditBase(edit, k) == IF Get(edit, k) = None THEN 0 ELSE Get(edit, k)

\* riesgo of the panel (lines 590-594); lot_size is the one of line 161, the
\* lot size of the symbol selected in the calculator.
EditRiesgo(edit, sl_val, lot_size) ==
    IF sl_val # None
    THEN IF Lower(Get(edit, "Tipo")) = "compra"
         THEN (sl_val - EditBase(edit, "Precio")) * EditBase(edit, "Lote") * lot_size
         ELSE (EditBase(edit, "Precio") - sl_val) * EditBase(edit, "Lote") * lot_size
    ELSE None

\* beneficio of the panel (lines 596-600)
EditBeneficio(edit, tp_val, lot_size) ==
    IF tp_val # None
    THEN IF Lower(Get(edit, "Tipo")) = "compra"
         THEN (tp_val - EditBase(edit, "Precio")) * EditBase(edit, "Lote") * lot_size
         ELSE (EditBase(edit, "Precio") - tp_val) * EditBase(edit, "Lote") * lot_size
    ELSE None

\* updated (lines 618-679): the copy loaded in the session with the new
\* stop, target and comment, the state when activated, and the derived
\* columns; a derived value that is None leaves the loaded one.
Updated(edit, sl_val, tp_val, edit_comment, activar_tipo, lot_size) ==
    LET riesgo == EditRiesgo(edit, sl_val, lot_size)
        beneficio == EditBeneficio(edit, tp_val, lot_size)
        rb == EditRB(riesgo, beneficio)
        lote == EditBase(edit, "Lote")
        precio == EditBase(edit, "Precio")
        symbol == Get(edit, "Simbolo")
        new ==
            [StopLoss |-> sl_val,
             TakeProfit |-> tp_val,
             Comentario |-> edit_comment,
             Estado |-> IF activar_tipo # "" THEN activar_tipo ELSE Get(edit, "Estado"),
             OrdenTipo |-> IF activar_tipo # "" THEN activar_tipo
                           ELSE Get(edit, "OrdenTipo"),
             Lote |-> lote,
             Precio |-> precio,
             Margen |-> Round2(MarginPctOf(symbol) * lote * precio * LotSizeOf(symbol),
                               100),
             Riesgo |-> IF riesgo # None THEN Round2(riesgo, 1) ELSE Get(edit, "Riesgo"),
             Beneficio |-> IF beneficio # None THEN Round2(beneficio, 1)
                           ELSE Get(edit, "Beneficio"),
             RB |-> IF rb # << >> THEN Round2(rb[1], rb[2]) ELSE Get(edit, "RB")]
    IN  [h \in DOMAIN edit \cup DOMAIN new |->
            IF h \in DOMAIN new THEN new[h] ELSE edit[h]]

\* Button "Guardar modificación".  The panel is below line 484, so it is
\* reached only in a run that lists data rows.
GuardarModificacion(s) ==
    /\ ConfigOk
    /\ Listed /\ ss[s].edit_loaded
    /\ clock < ClockStart + MaxWrites
    /\ UNCHANGED <<cfg_columns, parseVars, form, metrics, headers, hist>>
    /\ LET rec == ss[s]
           w == "Guardar modificacion"
           edit == ss[s].edit_row
           pendiente == EstadoOf(edit) = "pendiente"
       IN  \E lv \in EditInputs,
              edit_comment \in EditComentarios,
              activar_tipo \in {""} \cup (IF pendiente THEN ActivarTipos ELSE {}),
              store_ok \in BOOLEAN :
             IF ~store_ok
             THEN /\ UNCHANGED <<ops, clock>>
                  /\ EndRun(s, rec, w, 0, "Error al guardar modificacion")
             ELSE /\ ops' = UpdateRow(ops, ss[s].edit_rownum,
                               RowFor(headers,
                                   Updated(edit, lv.sl, lv.tp, edit_comment,
                                           activar_tipo, LotSizeOf(lv.symbol))),
                               headers)
                  /\ clock' = clock + 1
                  /\ EndRun(s, [rec EXCEPT !.edit_loaded = FALSE,
                                           !.edit_row = NoRow,
                                           !.edit_rownum = 0],
                            w, 0, "Modificacion guardada en Operaciones.")

\* ------------------------------------------------------------------------
\* Specification of the record lifecycle
\* ------------------------------------------------------------------------
\* Sheets found at the start: an empty one, and the sheet two earlier
\* registrations of pending orders left, a purchase and then a sale.  With no
\* header row nothing can have been registered.
InitialSheets(hs) ==
    {<< >>} \cup
    (IF hs = NoHeaders THEN {}
     ELSE {<<RowFor(hs, Datos(1, 1, f1, "Pendiente", << >>)),
             RowFor(hs, Datos(2, 2, f2, "Pendiente", << >>))>> :
             f1 \in {f \in RegForms : f.lote # None /\ f.side = "Compra"},
             f2 \in {f \in RegForms : f.precio # None /\ f.side = "Venta"}})

Init ==
    /\ InitForm
    /\ cfg_columns = required_cfg_cols
    /\ \E hs \in {HeadersOrdenTipo, HeadersEstado, NoHeaders} :
         \E sheet \in InitialSheets(hs) : InitLife(hs, sheet, Sessions)

Next ==
    \E s \in Sessions :
        \/ InputChange(s)
        \/ RegistrarSuceso(s)
        \/ AceptarYGuardar(s)
        \/ Modificar(s)
        \/ Eliminar(s)
        \/ ConfirmarEliminacion(s)
        \/ CierreAutomatico(s)
        \/ ConfirmarCierreAutomatico(s)
        \/ GuardarModificacion(s)
        \/ CierreManual(s)
        \/ ConfirmarCierreManual(s)
        \/ Exportar(s)
        \/ OtherSessionCancels

Spec == Init /\ [][Next]_vars

\* ------------------------------------------------------------------------
\* Specification of the calculator alone
\* ------------------------------------------------------------------------
InitCalc ==
    /\ InitForm
    /\ cfg_columns = required_cfg_cols
    /\ InitLife(HeadersOrdenTipo, << >>, Sessions)

\* The user changes the inputs; the script runs and shows the metrics.
CalcRun ==
    \E f \in FormValues :
        /\ ConfigOk
        /\ form' = f
        /\ metrics' = Calc(f)
        /\ UNCHANGED lifeVars

NextCalc == CalcRun

SpecCalc == InitCalc /\ [][NextCalc]_vars

\* ------------------------------------------------------------------------
\* Specification of parse_decimal alone
\* ------------------------------------------------------------------------
\* The user types a text in a numeric field; the script parses it.
TypeText ==
    \E t \in Texts :
        /\ ConfigOk
        /\ text' = t
        /\ parsed' = parse_decimal(t)
        /\ UNCHANGED <<cfg_columns, form, metrics, headers, ops, hist, ss, clock, last>>

NextParse == TypeText

SpecParse == InitCalc /\ [][NextParse]_vars

\* ------------------------------------------------------------------------
\* Specification with any set of columns in Config
\* ------------------------------------------------------------------------
\* The widgets that can start a run: none (a first load or a changed input)
\* or a button of the page.
RunStarters ==
    {"none", "Registrar Suceso", "Aceptar y Guardar",
     "Modificar operacion seleccionada", "Eliminar operacion pendiente",
     "Confirmar eliminacion", "Cierre automatico (TP/SL)",
     "Confirmar cierre automatico", "Guardar modificacion",
     "Cierre manual de seleccion", "Confirmar cierre manual",
     "Exportar Operaciones a CSV"}

\* A run with required columns missing: st.error and st.stop() (lines
\* 119-121), before anything else of the script.
ConfigErrorRun(s) ==
    /\ ~ConfigOk
    /\ \E w \in RunStarters :
          last' = [s |-> s, w |-> w, sel |-> 0,
                   msg |-> "La hoja 'Config' debe contener las columnas: Symbol, LotSize, MarginPct.",
                   exc |-> "none"]
    /\ UNCHANGED <<cfg_columns, parseVars, form, metrics, headers, ops, hist, ss, clock>>

InitConfig ==
    /\ InitForm
    /\ cfg_columns \in SUBSET required_cfg_cols
    /\ \E hs \in {HeadersOrdenTipo, HeadersEstado, NoHeaders} :
         \E sheet \in InitialSheets(hs) : InitLife(hs, sheet, Sessions)

NextConfig ==
    \/ Next
    \/ \E s \in Sessions : ConfigErrorRun(s)

SpecConfig == InitConfig /\ [][NextConfig]_vars

\* ------------------------------------------------------------------------
\* Claims on the calculator (checked under SpecCalc)
\* ------------------------------------------------------------------------
AllGiven == form.lote # None /\ form.precio # None /\ form.sl # None /\ form.tp # None

\* Stop and target on the sides of the entry that the direction asks for.
Ordered ==
    IF form.side = "Compra"
    THEN form.sl < form.precio /\ form.tp > form.precio
    ELSE form.sl > form.precio /\ form.tp < form.precio

\* A fraction <<n, d>> equals the quotient a / b.
RatIs(x, a, b) == x # << >> /\ b # 0 /\ x[2] # 0 /\ x[1] * b = a * x[2]

\* C8 as stated: with lot > 0 the calculator is coherent (no incoherence flag)
\* exactly when stop and target are ordered around the entry for the side, and
\* exactly when riesgo and beneficio as computed are both strictly positive.
C8_Original ==
    (AllGiven /\ form.lote > 0) =>
        /\ (~metrics.incoherente) <=> Ordered
        /\ (~metrics.incoherente) <=> (metrics.riesgo > 0 /\ metrics.beneficio > 0)

\* C8 amended: with lot > 0 and entry, stop and target given, the calculator
\* is coherent exactly when stop and target are ordered around the entry for
\* the side, and exactly when riesgo as computed is strictly negative and
\* beneficio as computed is strictly positive.
C8_Coherence ==
    (AllGiven /\ form.lote > 0) =>
        /\ (~metrics.incoherente) <=> Ordered
        /\ (~metrics.incoherente) <=> (metrics.riesgo < 0 /\ metrics.beneficio > 0)

C8_Witness ==
    /\ AllGiven /\ form.lote > 0 /\ form.side = "Venta"
    /\ Ordered /\ ~metrics.incoherente /\ metrics.riesgo < 0

\* C9 as stated: rb is a number only when riesgo > 0 and then is
\* beneficio / riesgo; whenever riesgo <= 0 rb is not a number.
C9_Original ==
    /\ metrics.rb # << >> =>
           /\ metrics.riesgo # None /\ metrics.riesgo > 0
           /\ RatIs(metrics.rb, metrics.beneficio, metrics.riesgo)
    /\ (metrics.riesgo # None /\ metrics.riesgo <= 0) => metrics.rb = << >>

\* C9 amended: rb is a number exactly when riesgo and beneficio are both
\* computed and riesgo is not 0, and then is abs(beneficio) / abs(riesgo), in
\* the calculator and in the edit panel alike; otherwise it is not available.
C9_Ratio ==
    LET r == metrics.riesgo
        b == metrics.beneficio
        numeric == r # None /\ b # None /\ r # 0
    IN  /\ (metrics.rb # << >>) <=> numeric
        /\ numeric => RatIs(metrics.rb, Abs(b), Abs(r))
        /\ (EditRB(r, b) # << >>) <=> numeric
        /\ numeric => RatIs(EditRB(r, b), Abs(b), Abs(r))

C9_Witness ==
    /\ metrics.riesgo # None /\ metrics.riesgo < 0
    /\ metrics.beneficio # None /\ metrics.beneficio < 0
    /\ metrics.rb # << >>

\* C10: margen is computed iff lote and precio are given, riesgo iff lote,
\* precio and stop are given, beneficio iff lote, precio and target are given,
\* and rb is not available whenever riesgo or beneficio is not; a metric that
\* is not computed is None, not 0.
C10_Partial ==
    /\ (metrics.margen # None) <=> (form.lote # None /\ form.precio # None)
    /\ (metrics.riesgo # None) <=>
           (form.lote # None /\ form.precio # None /\ form.sl # None)
    /\ (metrics.beneficio # None) <=>
           (form.lote # None /\ form.precio # None /\ form.tp # None)
    /\ (metrics.riesgo = None \/ metrics.beneficio = None) => metrics.rb = << >>

C10_Witness ==
    /\ form.lote # None /\ form.precio # None /\ form.sl = None /\ form.tp = None
    /\ metrics.margen # None /\ metrics.margen > 0
    /\ metrics.riesgo = None /\ metrics.beneficio = None /\ metrics.rb = << >>

\* ------------------------------------------------------------------------
\* Claims on the record lifecycle (checked under Spec)
\* ------------------------------------------------------------------------
\* The rows of a table that hold the record uid.
RowsOf(table, uid) == {i \in 1 .. Len(table) : table[i].UID = uid}

\* The last row of Historial.
LastHist(h) == h[Len(h)]

\* A text with a character that is no space.
NotBlank(t) == \E k \in 1 .. Len(t) : t[k] # " "

\* C1: a record is moved to Historial by a cancel only if that record is in
\* state Pending in Operaciones at the moment the move is committed.
C1_CancelOnlyPending ==
    [][(last'.w = "Confirmar eliminacion" /\ Len(hist') > Len(hist)) =>
          \E i \in RowsOf(ops, LastHist(hist').UID) :
              EstadoOf(ops[i]) = "pendiente"]_vars

\* C2: a cancel of a Pending record with a non-empty justification that the
\* store carries out succeeds: after the confirmation the record is in no row
\* of Operaciones and Historial holds one new row for it, with closure cause
\* "Eliminada" and the justification.
C2_CancelSucceeds ==
    [][(/\ last'.s \in Sessions
        /\ last'.w = "Confirmar eliminacion"
        /\ last'.msg = "Operacion pendiente eliminada y registrada en Historial.") =>
          LET uid == ss[last'.s].delete_row.UID
          IN  /\ RowsOf(ops', uid) = {}
              /\ Len(hist') = Len(hist) + 1
              /\ LastHist(hist').UID = uid
              /\ LastHist(hist').EstadoCierre = "Eliminada"
              /\ NotBlank(LastHist(hist').Justificacion)]_vars

C4_AutoCloseCompletes ==
    [][(/\ last.w = "Cierre automatico (TP/SL)" /\ last.msg = "none"
        /\ last'.s = last.s /\ last'.w = "Confirmar cierre automatico") =>
          LET uid == RowDict(ops, last.sel, headers).UID
          IN  /\ Len(hist') = Len(hist) + 1
              /\ LastHist(hist').UID = uid
              /\ LastHist(hist').EstadoCierre \in
                    {"Cierre automatico TP", "Cierre automatico SL"}
              /\ RowsOf(ops', uid) = {}]_vars

\* C5: for a row that is not Pending, after "Cierre manual de selección" has
\* shown its inputs, the press of "Confirmar cierre manual" appends the record
\* to Historial with cause "Cierre manual" and the close price and removes it
\* from Operaciones.
C5_ManualCloseCompletes ==
    [][(/\ last.w = "Cierre manual de seleccion" /\ last.msg = "none"
        /\ last'.s = last.s /\ last'.w = "Confirmar cierre manual") =>
          LET uid == RowDict(ops, last.sel, headers).UID
          IN  /\ Len(hist') = Len(hist) + 1
              /\ LastHist(hist').UID = uid
              /\ LastHist(hist').EstadoCierre = "Cierre manual"
              /\ LastHist(hist').PrecioCierre # None
              /\ RowsOf(ops', uid) = {}]_vars

\* C6: "Aceptar y Guardar" with lot or entry price absent shows the error and
\* appends nothing: Operaciones and Historial are unchanged; a run of the
\* button that changes Operaciones appends one row, which has lot and price.
C6_RegisterRejected ==
    [][last'.w = "Aceptar y Guardar" =>
          /\ hist' = hist
          /\ last'.msg = "Necesitas al menos Lote y Precio para registrar." =>
                ops' = ops
          /\ ops' # ops =>
                /\ ops' = Append(ops, ops'[Len(ops')])
                /\ ops'[Len(ops')].Lote # None
                /\ ops'[Len(ops')].Precio # None]_vars

C6_Witness ==
    /\ last.w = "Aceptar y Guardar"
    /\ last.msg = "Necesitas al menos Lote y Precio para registrar."
    /\ ss[last.s].show_register_panel
    /\ Len(ops) = 1

\* C7: "Confirmar eliminación" with an empty or whitespace-only justification
\* shows the error and changes nothing: no row is appended to Historial and
\* none is removed from Operaciones; every row a cancel appends to Historial
\* carries a justification that is not blank.
C7_BlankJustificationRejected ==
    [][/\ last'.msg = "La justificacion es obligatoria." =>
             UNCHANGED <<ops, hist>>
       /\ (last'.w = "Confirmar eliminacion" /\ hist' # hist) =>
             NotBlank(LastHist(hist').Justificacion)]_vars

C7_Witness ==
    /\ last.w = "Confirmar eliminacion"
    /\ last.msg = "La justificacion es obligatoria."
    /\ ss[last.s].show_delete_panel
    /\ EstadoOf(RowDict(ops, ss[last.s].delete_rownum, headers)) = "pendiente"
    /\ hist = << >>

\* The press of "Confirmar cierre automático" on the form that the run before
\* drew for the row last.sel.
AutoConfirmStep ==
    /\ last.w = "Cierre automatico (TP/SL)" /\ last.msg = "none"
    /\ last'.s = last.s /\ last'.w = "Confirmar cierre automatico"

\* C11: an automatic close writes the record's own level as close price: with
\* cause TP the row it appends to Historial has the Take Profit of the row of
\* Operaciones as close price, with cause SL its Stop Loss.
C11_AutoClosePrice ==
    [][AutoConfirmStep =>
          LET row == RowDict(ops, last.sel, headers)
              h == LastHist(hist')
          IN  /\ Len(hist') = Len(hist) + 1
              /\ \/ /\ h.EstadoCierre = "Cierre automatico TP"
                    /\ h.PrecioCierre = row.TakeProfit
                 \/ /\ h.EstadoCierre = "Cierre automatico SL"
                    /\ h.PrecioCierre = row.StopLoss]_vars

\* A successful run of "Guardar modificación".
SaveStep ==
    /\ last'.w = "Guardar modificacion"
    /\ last'.msg = "Modificacion guardada en Operaciones."

ImmutableCols == {"Fecha", "Simbolo", "Tipo", "Lote", "Precio"}

\* C12: a Modify save leaves the open timestamp, symbol, side, lot and entry
\* price of every row of Operaciones as they were before the save.
C12_ModifyKeepsImmutable ==
    [][SaveStep =>
          \A i \in 1 .. Len(ops) : \A c \in ImmutableCols :
              i <= Len(ops') /\ ops'[i][c] = ops[i][c]]_vars

\* C13: no run is aborted by an exception that nothing catches.
C13_NoUnhandledException == last.exc = "none"

\* C14: a cancel or close that reports a failure of the store is not half
\* applied: after it the record is in Operaciones or in Historial, not in
\* both and not in neither.
C14_NoPartialMove ==
    [][(/\ last'.w = "Confirmar eliminacion"
        /\ last'.msg = "Error al intentar eliminar") =>
          LET uid == ss[last'.s].delete_row.UID
          IN  (RowsOf(ops', uid) # {}) # (RowsOf(hist', uid) # {})]_vars

\* C17: what a close writes as Riesgo and Beneficio is what the row of
\* Operaciones stores: for every row with lot and price, the history row of
\* an automatic and of a manual close of it has the Riesgo and Beneficio of the
\* row.
C17_CloseReproducesPlan ==
    \A i \in 1 .. Len(ops) :
        ops[i].Lote # None =>
            \A compra \in {Lower(ops[i].Tipo) = "compra", ops[i].Tipo = "Compra"} :
                LET h == CloseHistRow(ops[i], clock, compra, ops[i].TakeProfit,
                                      "Cierre automatico TP", << >>)
                IN  h.Riesgo = ops[i].Riesgo /\ h.Beneficio = ops[i].Beneficio

\* C19: "Guardar modificación" overwrites the row of the record that was
\* loaded for editing, with values taken from that row as it is at the moment
\* of the write.
C19_SaveWritesLoadedRecord ==
    [][SaveStep =>
          LET row == RowDict(ops, ss[last'.s].edit_rownum, headers)
          IN  /\ row.UID = ss[last'.s].edit_row.UID
              /\ row = ss[last'.s].edit_row]_vars

\* C20: the row a cancel deletes from Operaciones is the row of the record it
\* appends to Historial.
C20_CancelRemovesArchived ==
    [][(/\ last'.s \in Sessions
        /\ last'.w = "Confirmar eliminacion"
        /\ Len(hist') > Len(hist) /\ ops' # ops) =>
          /\ RowDict(ops, ss[last'.s].delete_rownum, headers).UID = LastHist(hist').UID
          /\ RowsOf(ops', LastHist(hist').UID) = {}]_vars

\* ------------------------------------------------------------------------
\* Claims on the configuration (checked under SpecConfig)
\* ------------------------------------------------------------------------
\* C15: when Config lacks one of the columns Symbol, LotSize, MarginPct, every
\* run reports the configuration error and halts: the calculator, the
\* session state and the sheets are as before the run.
C15_ConfigErrorHalts ==
    [][~(required_cfg_cols \subseteq cfg_columns) =>
          /\ last'.msg =
               "La hoja 'Config' debe contener las columnas: Symbol, LotSize, MarginPct."
          /\ UNCHANGED <<cfg_columns, form, metrics, headers, ops, hist, ss, clock>>]_vars

C15_Witness ==
    /\ cfg_columns = {"Symbol", "LotSize"}
    /\ last.w = "Aceptar y Guardar"
    /\ last.msg = "La hoja 'Config' debe contener las columnas: Symbol, LotSize, MarginPct."
    /\ Len(ops) = 2 /\ hist = << >>

\* ------------------------------------------------------------------------
\* Claims on parse_decimal (checked under SpecParse)
\* ------------------------------------------------------------------------
\* A decimal text: digits with at most one separator, comma or point, and at
\* least one digit, with spaces around it or not.
IsDecimalText(t) ==
    LET u == Strip(t)
    IN  /\ \A i \in 1 .. Len(u) : u[i] \in Digits \cup {",", "."}
        /\ Cardinality({i \in 1 .. Len(u) : u[i] \in {",", "."}}) <= 1
        /\ \E i \in 1 .. Len(u) : u[i] \in Digits

\* C16: the text parsed with its commas written as points and with its points
\* written as commas gives the same result; an empty or whitespace-only text
\* gives None; a text that is no decimal number gives None.
C16_Normalizer ==
    /\ parsed = parse_decimal(text)
    /\ parse_decimal(Replace(text, ",", ".")) = parse_decimal(Replace(text, ".", ","))
    /\ (\A i \in 1 .. Len(text) : text[i] = " ") => parsed = FloatNone
    /\ ~IsDecimalText(text) => parsed = FloatNone

\* ------------------------------------------------------------------------
\* Claims on the sign of riesgo and beneficio (checked under SpecCalc)
\* ------------------------------------------------------------------------
\* riesgo and beneficio of a form with everything given equal r and b.
RiskRewardAre(r, b) ==
    /\ metrics.riesgo = r * LOT_SIZES[form.symbol]
    /\ metrics.beneficio = b * LOT_SIZES[form.symbol]

\* C18 as stated: for a purchase riesgo is lote * (precio - sl) and beneficio
\* lote * (tp - precio), for a sale riesgo is lote * (sl - precio) and
\* beneficio lote * (precio - tp), each times the lot size, so that a coherent
\* trade with lote > 0 has riesgo > 0.
C18_Original ==
    AllGiven =>
        /\ IF form.side = "Compra"
           THEN RiskRewardAre(form.lote * (form.precio - form.sl),
                              form.lote * (form.tp - form.precio))
           ELSE RiskRewardAre(form.lote * (form.sl - form.precio),
                              form.lote * (form.precio - form.tp))
        /\ (form.lote > 0 /\ ~metrics.incoherente) => metrics.riesgo > 0

\* C18 amended: for a purchase riesgo is lote * (sl - precio) and beneficio
\* lote * (tp - precio), for a sale riesgo is lote * (precio - sl) and
\* beneficio lote * (precio - tp), each times the lot size, so that a coherent
\* trade with lote > 0 has riesgo < 0 and beneficio > 0.
C18_SignConvention ==
    AllGiven =>
        /\ IF form.side = "Compra"
           THEN RiskRewardAre(form.lote * (form.sl - form.precio),
                              form.lote * (form.tp - form.precio))
           ELSE RiskRewardAre(form.lote * (form.precio - form.sl),
                              form.lote * (form.precio - form.tp))
        /\ (form.lote > 0 /\ ~metrics.incoherente) =>
               metrics.riesgo < 0 /\ metrics.beneficio > 0

C18_Witness ==
    /\ AllGiven /\ form.side = "Compra" /\ form.symbol = "EURUSD"
    /\ form.lote = 2 /\ form.precio = 2 /\ form.sl = 1 /\ form.tp = 3
    /\ metrics.riesgo = -4 /\ metrics.beneficio = 4 /\ ~metrics.incoherente

\* ------------------------------------------------------------------------
\* Claims about Modify
\* ------------------------------------------------------------------------
\* The row of Operaciones a Modify save has written: the one at the row
\* number the session kept when the panel was loaded.
SavedRow == ops'[ss[last'.s].edit_rownum - 1]

\* The stored derived columns of row r are the ones its lot, entry price,
\* stop and target give with the lot size of some configured symbol, and not
\* available where the stop or the target is absent.
DerivedAgree(r) ==
    \E sym \in Symbols :
        LET riesgo == EditRiesgo(r, Get(r, "StopLoss"), LotSizeOf(sym))
            beneficio == EditBeneficio(r, Get(r, "TakeProfit"), LotSizeOf(sym))
            rb == EditRB(riesgo, beneficio)
        IN  /\ Get(r, "Riesgo") = IF riesgo = None THEN None ELSE Round2(riesgo, 1)
            /\ Get(r, "Beneficio") =
                   IF beneficio = None THEN None ELSE Round2(beneficio, 1)
            /\ Get(r, "RB") = IF rb = << >> THEN None ELSE Round2(rb[1], rb[2])

\* C21: after a Modify save the derived columns of the row it wrote agree
\* with the row's lot, entry price, new stop and new target; with the new
\* stop or target absent, the risk or reward and the ratio are not available.
C21_DerivedAgree == [][SaveStep => DerivedAgree(SavedRow)]_vars

\* C22: the risk and the reward a Modify save stores are computed with the
\* lot size configured for the symbol of the record it edits.
C22_OwnLotSize ==
    [][SaveStep =>
          LET r == SavedRow
              lot_size == LotSizeOf(Get(r, "Simbolo"))
              riesgo == EditRiesgo(r, Get(r, "StopLoss"), lot_size)
              beneficio == EditBeneficio(r, Get(r, "TakeProfit"), lot_size)
          IN  /\ riesgo # None => Get(r, "Riesgo") = Round2(riesgo, 1)
              /\ beneficio # None => Get(r, "Beneficio") = Round2(beneficio, 1)]_vars

\* C23: a Modify save leaves the number of rows of Operaciones as it was,
\* leaves every row but the one it writes as it was, and leaves Historial as
\* it was.
C23_ModifyInPlace ==
    [][SaveStep =>
          /\ Len(ops') = Len(ops)
          /\ \A i \in 1 .. Len(ops) :
                 i # ss[last'.s].edit_rownum - 1 => ops'[i] = ops[i]
          /\ hist' = hist]_vars

\* ------------------------------------------------------------------------
\* Claims about the tables
\* ------------------------------------------------------------------------
\* A Register that succeeds.
RegisterStep ==
    /\ last'.w = "Aceptar y Guardar"
    /\ last'.msg = "Suceso guardado en Operaciones."

\* C24: a Register that succeeds appends one row to Operaciones, and the
\* state the list, close and cancel code read from that row is one the user
\* can choose, pending or market, whichever name the state column has.
C24_RegisteredState ==
    [][RegisterStep =>
          /\ Len(ops') = Len(ops) + 1
          /\ SubSeq(ops', 1, Len(ops)) = ops
          /\ EstadoOf(ops'[Len(ops')]) \in {Lower(t) : t \in OrdenTipos}]_vars

\* The UIDs a record can have: the rows found at the start and the clock
\* values of the registrations.
UIDs == 1 .. ClockStart + MaxWrites

\* The states the rows of record uid have in a table.
StatesOf(table, uid) == {EstadoOf(table[i]) : i \in RowsOf(table, uid)}

Activated(uid) == StatesOf(ops, uid) \cap {"stopeada", "limitada"} # {}

Cancelled(uid) ==
    \E i \in RowsOf(hist, uid) : hist[i].EstadoCierre = "Eliminada"

\* C25: a Modify save changes the state of a record that stays in
\* Operaciones only from pending to an activation type, stopeada or limitada;
\* and a record that is activated and not cancelled is never cancelled
\* afterwards.
C25_ActivationOnly ==
    /\ [][SaveStep =>
             \A uid \in UIDs :
                 (/\ StatesOf(ops, uid) # {} /\ StatesOf(ops', uid) # {}
                  /\ StatesOf(ops', uid) # StatesOf(ops, uid)) =>
                     /\ StatesOf(ops, uid) = {"pendiente"}
                     /\ StatesOf(ops', uid) \in {{"stopeada"}, {"limitada"}}]_vars
    /\ \A uid \in UIDs :
           []((Activated(uid) /\ ~Cancelled(uid)) => []~Cancelled(uid))

\* The messages of a cancel and of a close that succeeded.
Archived ==
    {"Operacion pendiente eliminada y registrada en Historial.",
     "Cierre automatico registrado en Historial y eliminado de Operaciones.",
     "Cierre manual registrado y operacion eliminada de Operaciones."}

\* C26: Historial is append-only: no step changes or removes a row it holds;
\* it changes only in the confirmation of a cancel or of a close, by one row
\* added at the end, and every cancel or close that succeeds adds one.
C26_HistoryAppendOnly ==
    [][/\ \/ hist' = hist
          \/ /\ Len(hist') = Len(hist) + 1
             /\ SubSeq(hist', 1, Len(hist)) = hist
             /\ last'.w \in {"Confirmar eliminacion",
                             "Confirmar cierre automatico",
                             "Confirmar cierre manual"}
       /\ last'.msg \in Archived => Len(hist') = Len(hist) + 1]_vars

\* Two cancels have succeeded and Historial holds both rows.
C26_Witness ==
    /\ Len(hist) = 2
    /\ hist[1] # hist[2]
    /\ last.msg = "Operacion pendiente eliminada y registrada en Historial."

\* C27: between runs, a record with a row in Operaciones or in Historial has
\* one row in all: one in Operaciones or one in Historial, never both.
C27_ExactlyOnePlace ==
    \A uid \in UIDs :
        RowsOf(ops, uid) \cup RowsOf(hist, uid) # {} =>
            Cardinality(RowsOf(ops, uid)) + Cardinality(RowsOf(hist, uid)) = 1

\* C28: a run over Operaciones with no data rows reaches the end of the
\* script: it is not ended by an exception.
C28_EmptyTableRunCompletes == ops = << >> => last.exc = "none"

====
